---- MODULE Spec2Model ----
(***************************************************************************)
(* A model of the charm integration-test harness                           *)
(* (testserver.SetupTestServerWithAgent, FetchURL, randomPort) together    *)
(* with the parts of Go's testing.TB it relies on: tb.Cleanup (a LIFO      *)
(* stack run at the end of the test), tb.Fatalf (fail and leave the test   *)
(* goroutine, running deferred calls) and tb.Error (fail and continue).    *)
(***************************************************************************)
EXTENDS Integers, Sequences, FiniteSets, TLC

\* ------------------------------------------------------------------ bounds
\* harness invocations one test may make
MaxInv == 2
\* signers a caller may pass
MaxSigners == 1
\* size of the pool the operating system hands free ports out of
NumPorts == 1
\* largest retries argument of a stand-alone FetchURL call
MaxRetries == 6
\* ports of the loopback interface, when each port is followed on its own
PoolSize == 6
\* non-empty keys and non-empty values of the key/value store, calls made on it
NumKeys == 2
NumVals == 2
MaxOps == 4
\* frames of the spinner; key presses and ticks that can wait to be handled
SpinnerFrames == 3
MaxPending == 2

\* ------------------------------------------------------- program constants
\* FetchURL(url, 3) at the health probe
HealthRetries == 3
\* time.Sleep(time.Second), in milliseconds
FetchSleepMs == 1000
\* resp.StatusCode != 200
StatusOK == 200

H == 1..MaxInv
Ports == 1..NumPorts
Pool == 1..PoolSize
SignerCounts == 0..MaxSigners
\* statuses a health endpoint answers with
Statuses == {StatusOK, 503}

CoreVars == {"CHARM_HOST", "CHARM_SSH_PORT", "CHARM_HTTP_PORT", "CHARM_DATA_DIR"}
AgentVars == {"CHARM_USE_SSH_AGENT", "CHARM_SSH_AGENT_ADDR"}
HarnessVars == CoreVars \cup AgentVars

\* ----------------------------------------------------------------- helpers
DigitStr(d) ==
  CASE d = 0 -> "0" [] d = 1 -> "1" [] d = 2 -> "2" [] d = 3 -> "3" [] d = 4 -> "4"
    [] d = 5 -> "5" [] d = 6 -> "6" [] d = 7 -> "7" [] d = 8 -> "8" [] d = 9 -> "9"

RECURSIVE FormatInt(_)
\* fmt.Sprintf("%d", n) for n >= 0
FormatInt(n) == IF n < 10 THEN DigitStr(n) ELSE FormatInt(n \div 10) \o DigitStr(n % 10)

\* os.Setenv / os.Unsetenv on the process environment (a partial map)
Setenv(e, k, v) == [x \in (DOMAIN e) \cup {k} |-> IF x = k THEN v ELSE e[x]]
Unsetenv(e, k) == [x \in (DOMAIN e) \ {k} |-> e[x]]

RECURSIVE UnsetAll(_, _)
UnsetAll(e, ks) ==
  IF ks = {} THEN e
  ELSE LET k == CHOOSE x \in ks : TRUE IN UnsetAll(Unsetenv(e, k), ks \ {k})

EmptyEnv == [x \in {} |-> ""]

\* filepath.Join(td, name) with td := tb.TempDir(), a fresh directory per call
TempDir(h) == "/tmp/t" \o FormatInt(h)
PathJoin(dir, name) == dir \o "/" \o name

\* ------------------------------------------------------------------- state
VARIABLES
  env,       \* the process environment: a partial map from names to strings
  tpc,       \* where the running test is: "body", "setup", "cleanup", "done" ("fetch": a bare FetchURL call)
  failed,    \* tb.Failed() of the running test
  cleanups,  \* the functions given to tb.Cleanup, oldest first
  cleaning,  \* the cleanup function being run and the statement it is at
  pc,        \* pc[h]: the statement invocation h of SetupTestServerWithAgent is at
  signers,   \* signers[h]: len(signers) of invocation h
  cfg,       \* cfg[h]: the server configuration and clientData of invocation h
  srv,       \* srv[h]: the server s of invocation h
  agt,       \* agt[h]: the variable agt of invocation h and the agent it points to
  fetch,     \* fetch[h]: the FetchURL call of invocation h
  clients,   \* clients[h]: the variable clients of invocation h
  ccfg,      \* ccfg[h]: the variable ccfg of invocation h (the client configuration being built)
  hist,      \* hist[h]: what invocation h has done so far (history)
  par,       \* tests run in parallel: the test whose goroutine is running, and the others' tb
  kv,        \* the key/value store of package kv and the result of the last call on it
  ui         \* the keygen UI: its Model, the commands and messages under way, what tea was told

vars == <<env, tpc, failed, cleanups, cleaning, pc, signers, cfg, srv, agt, fetch, clients, ccfg, hist, par, kv, ui>>

\* errors: nil, the transport error of http.Get attempt n, or
\* fmt.Errorf("bad http status code: %d", n)
NilErr == [kind |-> "nil", n |-> 0]
TransportErr(n) == [kind |-> "transport", n |-> n]
StatusErr(code) == [kind |-> "status", n |-> code]

\* an http.Get outcome: 0 is a transport error, anything else the status of the response
TransportFailure == 0
Outcomes == {TransportFailure} \cup Statuses

ZeroFetch == [retries0 |-> 0, retries |-> 0, log |-> <<>>, resp |-> 0, err |-> NilErr,
              deferred |-> FALSE, bodyClosed |-> FALSE]
NewFetch(retries) == [ZeroFetch EXCEPT !.retries0 = retries, !.retries = retries]

GetEvent(out) == [e |-> "get", v |-> out]
SleepEvent(ms) == [e |-> "sleep", v |-> ms]
Gets(log) == SelectSeq(log, LAMBDA x : x.e = "get")
Sleeps(log) == SelectSeq(log, LAMBDA x : x.e = "sleep")

ZeroConfig == [Host |-> "", SSHPort |-> 0, HTTPPort |-> 0, HealthPort |-> 0,
               DataDir |-> "", clientData |-> ""]
ZeroServer == [state |-> "nil", started |-> FALSE, closes |-> 0]
ZeroAgent == [nil |-> TRUE, state |-> "none", socket |-> "", closes |-> 0]
ZeroClientConfig == [Host |-> "", SSHPort |-> 0, HTTPPort |-> 0, DataDir |-> "",
                     UseSSHAgent |-> FALSE, SSHAgentAddr |-> ""]
NilClient == [nil |-> TRUE, cfg |-> ZeroClientConfig]
ZeroClients == [Full |-> NilClient, NoAgent |-> NilClient]
ZeroHist == [written |-> {}, unset |-> {}, clog |-> <<>>, readySeen |-> FALSE]
NoCleaning == [h |-> 0, steps |-> <<>>]

\* the tb of a test that has not called the harness yet
NewTB == [tpc |-> "body", failed |-> FALSE, cleanups |-> <<>>, cleaning |-> NoCleaning]
\* the two tests of a parallel run, each calling the harness once
Par == {1, 2}
\* one test at a time: test 1 runs and no other test exists
NoPar == [cur |-> 1, saved |-> [h \in Par |-> NewTB]]

\* a store just opened (setup, part_000 lines 68-79), before any call: what it
\* holds, the last Set or Delete made on each key, the last call's result, and
\* the number of calls made
NoResult == [op |-> "none", key |-> "", val |-> "", err |-> FALSE]
ZeroKV == [db |-> [k \in {} |-> ""], last |-> [k \in {} |-> [op |-> "", v |-> ""]],
           res |-> NoResult, n |-> 0]
\* part_000 lines 315-325: NewModel()
NewModel == [status |-> "running", err |-> "", spinner |-> 0, standalone |-> FALSE]
\* no keygen UI running
ZeroUI == [on |-> FALSE, m |-> NewModel, cmd |-> "none", inbox |-> <<>>, subs |-> {},
           quit |-> FALSE]

\* ---------------------------------------------------------------- FetchURL
\* The recursion FetchURL(url, retries-1) runs in the same activation here:
\* retries is the argument of the innermost call, retries0 that of the outermost.

\* the condition under which a failed http.Get is tried again
RetryBadBudget(retries) == retries > 1
RetryBudget(retries) == retries > 0

\* the error FetchURL returns once the budget is used up
LastTransportErr(log) == TransportErr(Len(Gets(log)))

\* line 162: err != nil, the only failure that is tried again
IsRetryableOrBadStatus(out) == out # StatusOK
IsRetryable(out) == out = TransportFailure

\* lines 169-172: the error returned with a response
StatusErrorAlways(out) == StatusErr(out)
StatusError(out) == IF out # StatusOK THEN StatusErr(out) ELSE NilErr

\* lines 161-172: resp, err := http.Get(url) and what follows it, up to the
\* sleep or the return
FetchGet(h, out) ==
  /\ pc[h] = "fetchGet"
  /\ LET log == Append(fetch[h].log, GetEvent(out)) IN
     IF IsRetryable(out)
     THEN IF RetryBudget(fetch[h].retries)
          THEN /\ fetch' = [fetch EXCEPT ![h].log = log]
               /\ pc' = [pc EXCEPT ![h] = "fetchSleep"]
          ELSE /\ fetch' = [fetch EXCEPT ![h].log = log, ![h].resp = 0,
                                         ![h].err = LastTransportErr(log)]
               /\ pc' = [pc EXCEPT ![h] = "fetchRet"]
     ELSE /\ fetch' = [fetch EXCEPT ![h].log = log, ![h].resp = out,
                                    ![h].err = StatusError(out)]
          /\ pc' = [pc EXCEPT ![h] = "fetchRet"]
  /\ UNCHANGED <<env, tpc, failed, cleanups, cleaning, signers, cfg, srv, agt, clients, ccfg, hist, par, kv, ui>>

\* time.Sleep(time.Second); return FetchURL(url, retries-1)
FetchSleep(h) ==
  /\ pc[h] = "fetchSleep"
  /\ fetch' = [fetch EXCEPT ![h].log = Append(@, SleepEvent(FetchSleepMs)),
                            ![h].retries = @ - 1]
  /\ pc' = [pc EXCEPT ![h] = "fetchGet"]
  /\ UNCHANGED <<env, tpc, failed, cleanups, cleaning, signers, cfg, srv, agt, clients, ccfg, hist, par, kv, ui>>

\* A bare call FetchURL(url, retries) with retries in 0..MaxRetries, against an
\* endpoint that may answer each attempt in any way.
InitFetch ==
  /\ env = EmptyEnv
  /\ tpc = "fetch"
  /\ failed = FALSE
  /\ cleanups = <<>>
  /\ cleaning = NoCleaning
  /\ \E r \in 0..MaxRetries :
       /\ fetch = [h \in H |-> IF h = 1 THEN NewFetch(r) ELSE ZeroFetch]
  /\ pc = [h \in H |-> IF h = 1 THEN "fetchGet" ELSE "idle"]
  /\ signers = [h \in H |-> 0]
  /\ cfg = [h \in H |-> ZeroConfig]
  /\ srv = [h \in H |-> ZeroServer]
  /\ agt = [h \in H |-> ZeroAgent]
  /\ clients = [h \in H |-> ZeroClients]
  /\ ccfg = [h \in H |-> ZeroClientConfig]
  /\ hist = [h \in H |-> ZeroHist]
  /\ par = NoPar
  /\ kv = ZeroKV
  /\ ui = ZeroUI

NextFetch ==
  \/ \E out \in Outcomes : FetchGet(1, out)
  \/ FetchSleep(1)

SpecFetch == InitFetch /\ [][NextFetch]_vars

\* ----------------------------------------------------- testing.TB, helpers
LogCleanup(h, what) == [hist EXCEPT ![h].clog = Append(@, what)]

\* tb.Fatalf inside invocation h: the test is marked failed and its goroutine
\* exits, running the deferred resp.Body.Close() when line 71 registered it;
\* the test's cleanups run next.
Fatalf(h) ==
  /\ pc' = [pc EXCEPT ![h] = "fatal"]
  /\ failed' = TRUE
  /\ tpc' = "cleanup"
  /\ fetch' = [fetch EXCEPT ![h].bodyClosed = fetch[h].deferred]

\* ------------------------------------------- collaborators outside src/
\* server.DefaultConfig().Host
DefaultHost == "localhost"
\* the socket a started agent listens on (Agent.Socket once Start has bound it)
AgentSocket(h) == PathJoin("/tmp/sshagent" \o FormatInt(h), "agent.sock")

\* strconv-style parsing of the decimal strings the environment holds
ParsesAsInt(str) == \E n \in 0..99 : FormatInt(n) = str
ParseInt(str) == CHOOSE n \in 0..99 : FormatInt(n) = str
Getenv(e, k, default) == IF k \in DOMAIN e THEN e[k] ELSE default

\* client.ConfigFromEnv: every field from its variable, or its default
ConfigFromEnvOK(e) ==
  /\ ("CHARM_SSH_PORT" \in DOMAIN e => ParsesAsInt(e["CHARM_SSH_PORT"]))
  /\ ("CHARM_HTTP_PORT" \in DOMAIN e => ParsesAsInt(e["CHARM_HTTP_PORT"]))
  /\ Getenv(e, "CHARM_USE_SSH_AGENT", "false") \in {"true", "false"}
ConfigFromEnv(e) ==
  [Host |-> Getenv(e, "CHARM_HOST", "cloud.charm.sh"),
   SSHPort |-> IF "CHARM_SSH_PORT" \in DOMAIN e THEN ParseInt(e["CHARM_SSH_PORT"]) ELSE 35353,
   HTTPPort |-> IF "CHARM_HTTP_PORT" \in DOMAIN e THEN ParseInt(e["CHARM_HTTP_PORT"]) ELSE 35354,
   DataDir |-> Getenv(e, "CHARM_DATA_DIR", ""),
   UseSSHAgent |-> Getenv(e, "CHARM_USE_SSH_AGENT", "false") = "true",
   SSHAgentAddr |-> Getenv(e, "CHARM_SSH_AGENT_ADDR", "")]

\* ------------------------------------------------ SetupTestServerWithAgent
\* The test body calls SetupTestServerWithAgent(tb, signers...) with n signers.
\* Invocations of one test follow one another.
TestCallSetup(h, n) ==
  /\ tpc = "body"
  /\ pc[h] = "idle"
  /\ \A g \in H : g < h => pc[g] = "returned"
  /\ pc' = [pc EXCEPT ![h] = "start"]
  /\ signers' = [signers EXCEPT ![h] = n]
  /\ tpc' = "setup"
  /\ UNCHANGED <<env, failed, cleanups, cleaning, cfg, srv, agt, fetch, clients, ccfg, hist, par, kv, ui>>

\* lines 39-47: the temporary directory and the three calls of randomPort, each
\* of which binds port 0, reads the port the system chose and releases it
Setup_Config(h) ==
  /\ pc[h] = "start"
  /\ \E sp \in Ports, hp \in Ports, lp \in Ports :
       cfg' = [cfg EXCEPT ![h] = [Host |-> DefaultHost, SSHPort |-> sp, HTTPPort |-> hp,
                                  HealthPort |-> lp,
                                  DataDir |-> PathJoin(TempDir(h), ".data"),
                                  clientData |-> PathJoin(TempDir(h), ".client-data")]]
  /\ pc' = [pc EXCEPT ![h] = "newServer"]
  /\ UNCHANGED <<env, tpc, failed, cleanups, cleaning, signers, srv, agt, fetch, clients, ccfg, hist, par, kv, ui>>

\* lines 176-179: net.Listen fails in randomPort
Setup_ConfigFatal(h) ==
  /\ pc[h] = "start"
  /\ Fatalf(h)
  /\ UNCHANGED <<env, cleanups, cleaning, signers, cfg, srv, agt, clients, ccfg, hist, par, kv, ui>>

\* lines 49-58: keygen.NewWithWrite and server.NewServer; either may fail
Setup_NewServer(h, ok) ==
  /\ pc[h] = "newServer"
  /\ IF ok
     THEN /\ srv' = [srv EXCEPT ![h].state = "new"]
          /\ pc' = [pc EXCEPT ![h] = "setenv"]
          /\ UNCHANGED <<tpc, failed, fetch>>
     ELSE Fatalf(h) /\ UNCHANGED srv
  /\ UNCHANGED <<env, cleanups, cleaning, signers, cfg, agt, clients, ccfg, hist, par, kv, ui>>

\* lines 60-63
CoreEnvServerDataDir(c) ==
  [x \in CoreVars |->
     CASE x = "CHARM_HOST" -> c.Host
       [] x = "CHARM_SSH_PORT" -> FormatInt(c.SSHPort)
       [] x = "CHARM_HTTP_PORT" -> FormatInt(c.HTTPPort)
       [] x = "CHARM_DATA_DIR" -> c.DataDir]
CoreEnv(c) ==
  [x \in CoreVars |->
     CASE x = "CHARM_HOST" -> c.Host
       [] x = "CHARM_SSH_PORT" -> FormatInt(c.SSHPort)
       [] x = "CHARM_HTTP_PORT" -> FormatInt(c.HTTPPort)
       [] x = "CHARM_DATA_DIR" -> c.clientData]

Setup_SetCoreEnv(h) ==
  /\ pc[h] = "setenv"
  /\ env' = [x \in (DOMAIN env) \cup CoreVars |->
               IF x \in CoreVars THEN CoreEnv(cfg[h])[x] ELSE env[x]]
  /\ hist' = [hist EXCEPT ![h].written = @ \cup CoreVars]
  /\ pc' = [pc EXCEPT ![h] = "goStart"]
  /\ UNCHANGED <<tpc, failed, cleanups, cleaning, signers, cfg, srv, agt, fetch, clients, ccfg, par, kv, ui>>

\* lines 65-67: go s.Start(), then the call FetchURL(health URL, 3)
Setup_StartServer(h) ==
  /\ pc[h] = "goStart"
  /\ srv' = [srv EXCEPT ![h].state = "starting", ![h].started = TRUE]
  /\ fetch' = [fetch EXCEPT ![h] = NewFetch(HealthRetries)]
  /\ pc' = [pc EXCEPT ![h] = "fetchGet"]
  /\ UNCHANGED <<env, tpc, failed, cleanups, cleaning, signers, cfg, agt, clients, ccfg, hist, par, kv, ui>>

\* the background s.Start(): the server comes to listen, or fails (its error is dropped)
Server_Start(h, ok) ==
  /\ srv[h].state = "starting"
  /\ srv' = [srv EXCEPT ![h].state = IF ok THEN "listening" ELSE "failed"]
  /\ UNCHANGED <<env, tpc, failed, cleanups, cleaning, pc, signers, cfg, agt, fetch, clients, ccfg, hist, par, kv, ui>>

\* what http.Get on the health port can give: nothing answers until the server listens
ProbeOutcomes(h) == IF srv[h].state = "listening" THEN Statuses ELSE {TransportFailure}

\* line 68: if err != nil
ProbeFailedOnlyTransport(err) == err.kind = "transport"
ProbeFailed(err) == err # NilErr

\* lines 68-73: the probe's result
Setup_ProbeResult(h) ==
  /\ pc[h] = "fetchRet"
  /\ tpc = "setup"
  /\ IF ProbeFailed(fetch[h].err)
     THEN Fatalf(h)
     ELSE /\ fetch' = [fetch EXCEPT ![h] = [ZeroFetch EXCEPT !.resp = fetch[h].resp,
                                                              !.deferred = TRUE]]
          /\ pc' = [pc EXCEPT ![h] = "agentNew"]
          /\ UNCHANGED <<tpc, failed>>
  /\ UNCHANGED <<env, cleanups, cleaning, signers, cfg, srv, agt, clients, ccfg, hist, par, kv, ui>>

\* line 76: the condition under which an agent is started
HasSignersAlways(n) == TRUE
HasSigners(n) == n > 0

\* lines 75-84: sshagent.New, go agt.Start(), tb.Cleanup(agt.Close)
Setup_NewAgent(h) ==
  /\ pc[h] = "agentNew"
  /\ IF HasSigners(signers[h])
     THEN /\ agt' = [agt EXCEPT ![h] = [ZeroAgent EXCEPT !.nil = FALSE, !.state = "starting"]]
          /\ cleanups' = Append(cleanups, [kind |-> "agent", h |-> h])
          /\ pc' = [pc EXCEPT ![h] = "agentWait"]
     ELSE /\ pc' = [pc EXCEPT ![h] = "regCleanup"]
          /\ UNCHANGED <<agt, cleanups>>
  /\ UNCHANGED <<env, tpc, failed, cleaning, signers, cfg, srv, fetch, clients, ccfg, hist, par, kv, ui>>

\* the background agt.Start(): the agent binds its socket and is ready, or fails
\* (its error is dropped)
Agent_Start(h, ok) ==
  /\ agt[h].state = "starting"
  /\ agt' = [agt EXCEPT ![h].state = IF ok THEN "ready" ELSE "failed",
                        ![h].socket = IF ok THEN AgentSocket(h) ELSE ""]
  /\ UNCHANGED <<env, tpc, failed, cleanups, cleaning, pc, signers, cfg, srv, fetch, clients, ccfg, hist, par, kv, ui>>

\* agt.Ready()
AgentReady(a) == a.state = "ready"

\* line 86: the condition under which the wait loop is left
LoopExitAlways(a) == TRUE
LoopExit(a) == AgentReady(a)

\* line 86: for !agt.Ready()
Setup_AgentReady(h) ==
  /\ pc[h] = "agentWait"
  /\ IF LoopExit(agt[h])
     THEN /\ hist' = [hist EXCEPT ![h].readySeen = AgentReady(agt[h])]
          /\ pc' = [pc EXCEPT ![h] = "regCleanup"]
     ELSE /\ pc' = [pc EXCEPT ![h] = "agentSleep"]
          /\ UNCHANGED hist
  /\ UNCHANGED <<env, tpc, failed, cleanups, cleaning, signers, cfg, srv, agt, fetch, clients, ccfg, par, kv, ui>>

\* line 87: time.Sleep(time.Millisecond * 100)
Setup_AgentSleep(h) ==
  /\ pc[h] = "agentSleep"
  /\ pc' = [pc EXCEPT ![h] = "agentWait"]
  /\ UNCHANGED <<env, tpc, failed, cleanups, cleaning, signers, cfg, srv, agt, fetch, clients, ccfg, hist, par, kv, ui>>

\* lines 93-106: tb.Cleanup of the server's close and the unsets
Setup_RegisterCleanup(h) ==
  /\ pc[h] = "regCleanup"
  /\ cleanups' = Append(cleanups, [kind |-> "server", h |-> h])
  /\ pc' = [pc EXCEPT ![h] = "noAgentConfig"]
  /\ UNCHANGED <<env, tpc, failed, cleaning, signers, cfg, srv, agt, fetch, clients, ccfg, hist, par, kv, ui>>

\* lines 110-118: the configuration read from the environment, with this
\* invocation's host, ports and data directory put over it
NoAgentConfigEnvOnly(e, c) == ConfigFromEnv(e)
NoAgentConfig(e, c) ==
  [ConfigFromEnv(e) EXCEPT !.Host = c.Host, !.SSHPort = c.SSHPort,
                           !.HTTPPort = c.HTTPPort, !.DataDir = c.clientData]

\* lines 130-139: the same, with the agent switched on at the agent's socket
FullConfig(e, c, a) ==
  [NoAgentConfig(e, c) EXCEPT !.UseSSHAgent = TRUE, !.SSHAgentAddr = a.socket]

\* lines 108-118; ok: whether whatever else ConfigFromEnv parses is well formed
Setup_NoAgentConfig(h, ok) ==
  /\ pc[h] = "noAgentConfig"
  /\ IF ok /\ ConfigFromEnvOK(env)
     THEN /\ ccfg' = [ccfg EXCEPT ![h] = NoAgentConfig(env, cfg[h])]
          /\ pc' = [pc EXCEPT ![h] = "noAgentClient"]
          /\ UNCHANGED <<tpc, failed, fetch>>
     ELSE Fatalf(h) /\ UNCHANGED ccfg
  /\ UNCHANGED <<env, cleanups, cleaning, signers, cfg, srv, agt, clients, hist, par, kv, ui>>

\* line 126: the condition under which the Full client is built
WantsFullNever(a) == FALSE
WantsFull(a) == ~a.nil

\* lines 120-126: client.NewClient(ccfg), which may fail
Setup_NoAgentClient(h, ok) ==
  /\ pc[h] = "noAgentClient"
  /\ IF ok
     THEN /\ clients' = [clients EXCEPT ![h].NoAgent = [nil |-> FALSE, cfg |-> ccfg[h]]]
          /\ pc' = [pc EXCEPT ![h] = IF WantsFull(agt[h]) THEN "agentEnv" ELSE "return"]
          /\ UNCHANGED <<tpc, failed, fetch>>
     ELSE Fatalf(h) /\ UNCHANGED clients
  /\ UNCHANGED <<env, cleanups, cleaning, signers, cfg, srv, agt, ccfg, hist, par, kv, ui>>

\* lines 127-128
Setup_SetAgentEnv(h) ==
  /\ pc[h] = "agentEnv"
  /\ env' = Setenv(Setenv(env, "CHARM_SSH_AGENT_ADDR", agt[h].socket),
                   "CHARM_USE_SSH_AGENT", "true")
  /\ hist' = [hist EXCEPT ![h].written = @ \cup AgentVars]
  /\ pc' = [pc EXCEPT ![h] = "fullConfig"]
  /\ UNCHANGED <<tpc, failed, cleanups, cleaning, signers, cfg, srv, agt, fetch, clients, ccfg, par, kv, ui>>

\* lines 130-139
Setup_FullConfig(h, ok) ==
  /\ pc[h] = "fullConfig"
  /\ IF ok /\ ConfigFromEnvOK(env)
     THEN /\ ccfg' = [ccfg EXCEPT ![h] = FullConfig(env, cfg[h], agt[h])]
          /\ pc' = [pc EXCEPT ![h] = "fullClient"]
          /\ UNCHANGED <<tpc, failed, fetch>>
     ELSE Fatalf(h) /\ UNCHANGED ccfg
  /\ UNCHANGED <<env, cleanups, cleaning, signers, cfg, srv, agt, clients, hist, par, kv, ui>>

\* lines 141-145
Setup_FullClient(h, ok) ==
  /\ pc[h] = "fullClient"
  /\ IF ok
     THEN /\ clients' = [clients EXCEPT ![h].Full = [nil |-> FALSE, cfg |-> ccfg[h]]]
          /\ pc' = [pc EXCEPT ![h] = "return"]
          /\ UNCHANGED <<tpc, failed, fetch>>
     ELSE Fatalf(h) /\ UNCHANGED clients
  /\ UNCHANGED <<env, cleanups, cleaning, signers, cfg, srv, agt, ccfg, hist, par, kv, ui>>

\* line 147, and the deferred resp.Body.Close() of line 71
Setup_Return(h) ==
  /\ pc[h] = "return"
  /\ pc' = [pc EXCEPT ![h] = "returned"]
  /\ fetch' = [fetch EXCEPT ![h].bodyClosed = TRUE]
  /\ tpc' = "body"
  /\ UNCHANGED <<env, failed, cleanups, cleaning, signers, cfg, srv, agt, clients, ccfg, hist, par, kv, ui>>

\* ------------------------------------------------------------ the cleanups
\* lines 82-84: the statements of the agent's cleanup function
AgentCleanupBody == <<"agentClose">>

\* lines 93-106: the statements of the server's cleanup function, for the agt it captured
ServerCleanupBodyClosesAgent(a) ==
  IF ~a.nil THEN <<"serverClose", "unsetCore", "unsetAgentEnv", "agentClose">>
  ELSE <<"serverClose", "unsetCore">>
ServerCleanupBodyAgentFirst(a) ==
  IF ~a.nil THEN <<"unsetAgentEnv", "serverClose", "unsetCore">> ELSE <<"serverClose", "unsetCore">>
ServerCleanupBody(a) ==
  IF ~a.nil THEN <<"serverClose", "unsetCore", "unsetAgentEnv">> ELSE <<"serverClose", "unsetCore">>

\* testing runs the functions given to tb.Cleanup last added first
Cleanup_Begin ==
  /\ tpc = "cleanup"
  /\ cleaning = NoCleaning
  /\ cleanups # <<>>
  /\ LET f == cleanups[Len(cleanups)] IN
       cleaning' = [h |-> f.h,
                    steps |-> IF f.kind = "agent" THEN AgentCleanupBody
                              ELSE ServerCleanupBody(agt[f.h])]
  /\ cleanups' = SubSeq(cleanups, 1, Len(cleanups) - 1)
  /\ UNCHANGED <<env, tpc, failed, pc, signers, cfg, srv, agt, fetch, clients, ccfg, hist, par, kv, ui>>

CleaningStep(what) == cleaning.steps # <<>> /\ Head(cleaning.steps) = what
CleaningNext ==
  IF Len(cleaning.steps) = 1 THEN NoCleaning ELSE [cleaning EXCEPT !.steps = Tail(@)]

\* lines 94-96: what the cleanup function does next when s.Close() has returned
\* err: tb.Error returns, so the statements after it run either way
AfterCloseFatal(err) == IF err THEN NoCleaning ELSE CleaningNext
AfterClose(err) == CleaningNext

\* lines 94-96: s.Close(); its error goes to tb.Error, which marks the test failed and goes on
Cleanup_ServerClose(err) ==
  /\ CleaningStep("serverClose")
  /\ srv' = [srv EXCEPT ![cleaning.h].state = "closed", ![cleaning.h].closes = @ + 1]
  /\ failed' = (failed \/ err)
  /\ hist' = LogCleanup(cleaning.h, "serverClose")
  /\ cleaning' = AfterClose(err)
  /\ UNCHANGED <<env, tpc, cleanups, pc, signers, cfg, agt, fetch, clients, ccfg, par, kv, ui>>

\* lines 98-101
Cleanup_UnsetCore ==
  /\ CleaningStep("unsetCore")
  /\ env' = UnsetAll(env, CoreVars)
  /\ hist' = [LogCleanup(cleaning.h, "unsetCore") EXCEPT ![cleaning.h].unset = @ \cup CoreVars]
  /\ cleaning' = CleaningNext
  /\ UNCHANGED <<tpc, failed, cleanups, pc, signers, cfg, srv, agt, fetch, clients, ccfg, par, kv, ui>>

\* lines 102-105
Cleanup_UnsetAgentEnv ==
  /\ CleaningStep("unsetAgentEnv")
  /\ env' = UnsetAll(env, AgentVars)
  /\ hist' = [LogCleanup(cleaning.h, "unsetAgentEnv") EXCEPT ![cleaning.h].unset = @ \cup AgentVars]
  /\ cleaning' = CleaningNext
  /\ UNCHANGED <<tpc, failed, cleanups, pc, signers, cfg, srv, agt, fetch, clients, ccfg, par, kv, ui>>

\* line 83: agt.Close(), its error dropped
Cleanup_AgentClose ==
  /\ CleaningStep("agentClose")
  /\ agt' = [agt EXCEPT ![cleaning.h].state = "closed", ![cleaning.h].closes = @ + 1]
  /\ hist' = LogCleanup(cleaning.h, "agentClose")
  /\ cleaning' = CleaningNext
  /\ UNCHANGED <<env, tpc, failed, cleanups, pc, signers, cfg, srv, fetch, clients, ccfg, par, kv, ui>>

\* ---------------------------------------------------------------- the test
\* the test function returns after at least one call of the harness
TestBodyEnd ==
  /\ tpc = "body"
  /\ pc[1] = "returned"
  /\ tpc' = "cleanup"
  /\ UNCHANGED <<env, failed, cleanups, cleaning, pc, signers, cfg, srv, agt, fetch, clients, ccfg, hist, par, kv, ui>>

\* every cleanup has run: the test is complete
TestFinish ==
  /\ tpc = "cleanup"
  /\ cleaning = NoCleaning
  /\ cleanups = <<>>
  /\ tpc' = "done"
  /\ UNCHANGED <<env, failed, cleanups, cleaning, pc, signers, cfg, srv, agt, fetch, clients, ccfg, hist, par, kv, ui>>

\* the next test of the same process starts: a new tb, the same environment
NextTest ==
  /\ tpc = "done"
  /\ tpc' = "body"
  /\ failed' = FALSE
  /\ pc' = [h \in H |-> "idle"]
  /\ signers' = [h \in H |-> 0]
  /\ cfg' = [h \in H |-> ZeroConfig]
  /\ srv' = [h \in H |-> ZeroServer]
  /\ agt' = [h \in H |-> ZeroAgent]
  /\ fetch' = [h \in H |-> ZeroFetch]
  /\ clients' = [h \in H |-> ZeroClients]
  /\ ccfg' = [h \in H |-> ZeroClientConfig]
  /\ hist' = [h \in H |-> ZeroHist]
  /\ UNCHANGED <<env, cleanups, cleaning, par, kv, ui>>

Init ==
  /\ env = EmptyEnv
  /\ tpc = "body"
  /\ failed = FALSE
  /\ cleanups = <<>>
  /\ cleaning = NoCleaning
  /\ pc = [h \in H |-> "idle"]
  /\ signers = [h \in H |-> 0]
  /\ cfg = [h \in H |-> ZeroConfig]
  /\ srv = [h \in H |-> ZeroServer]
  /\ agt = [h \in H |-> ZeroAgent]
  /\ fetch = [h \in H |-> ZeroFetch]
  /\ clients = [h \in H |-> ZeroClients]
  /\ ccfg = [h \in H |-> ZeroClientConfig]
  /\ hist = [h \in H |-> ZeroHist]
  /\ par = NoPar
  /\ kv = ZeroKV
  /\ ui = ZeroUI

\* lines 49-147: the statements after the configuration
AfterConfigStep(h) ==
  \/ \E ok \in BOOLEAN : Setup_NewServer(h, ok)
  \/ Setup_SetCoreEnv(h)
  \/ Setup_StartServer(h)
  \/ \E out \in ProbeOutcomes(h) : FetchGet(h, out)
  \/ FetchSleep(h)
  \/ Setup_ProbeResult(h)
  \/ Setup_NewAgent(h)
  \/ Setup_AgentReady(h)
  \/ Setup_AgentSleep(h)
  \/ Setup_RegisterCleanup(h)
  \/ \E ok \in BOOLEAN : Setup_NoAgentConfig(h, ok)
  \/ \E ok \in BOOLEAN : Setup_NoAgentClient(h, ok)
  \/ Setup_SetAgentEnv(h)
  \/ \E ok \in BOOLEAN : Setup_FullConfig(h, ok)
  \/ \E ok \in BOOLEAN : Setup_FullClient(h, ok)
  \/ Setup_Return(h)

SetupStep(h) ==
  \/ Setup_Config(h)
  \/ Setup_ConfigFatal(h)
  \/ AfterConfigStep(h)

Background(h) ==
  \/ \E ok \in BOOLEAN : Server_Start(h, ok)
  \/ \E ok \in BOOLEAN : Agent_Start(h, ok)

CleanupStep ==
  \/ Cleanup_Begin
  \/ \E err \in BOOLEAN : Cleanup_ServerClose(err)
  \/ Cleanup_UnsetCore
  \/ Cleanup_UnsetAgentEnv
  \/ Cleanup_AgentClose

Next ==
  \/ \E h \in H, n \in SignerCounts : TestCallSetup(h, n)
  \/ \E h \in H : SetupStep(h)
  \/ \E h \in H : Background(h)
  \/ TestBodyEnd
  \/ CleanupStep
  \/ TestFinish
  \/ NextTest

Spec == Init /\ [][Next]_vars

\* The Go scheduler runs every goroutine that can run: the test's own goroutine
\* and the two background ones (s.Start, agt.Start) each keep taking steps.
TestGoroutine ==
  \/ \E h \in H, n \in SignerCounts : TestCallSetup(h, n)
  \/ \E h \in H : SetupStep(h)
  \/ TestBodyEnd
  \/ CleanupStep
  \/ TestFinish
  \/ NextTest

FairSpec ==
  /\ Spec
  /\ WF_vars(TestGoroutine)
  /\ \A h \in H : WF_vars(Background(h))

\* ------------------------------------------------- the ports, one by one
\* randomPort and the server's listeners against the table of bound ports the
\* operating system keeps: net.Listen on port 0 is given a port no listener
\* holds, and a listener cannot bind a port another one holds. Nothing but
\* the invocations of this test binds ports here.

\* the three ports of a configuration
PortsOf(c) == {c.SSHPort, c.HTTPPort, c.HealthPort}
\* the ports the listeners of the running servers hold
BoundPorts == UNION {PortsOf(cfg[g]) : g \in {x \in H : srv[x].state = "listening"}}
\* the ports net.Listen("tcp", "127.0.0.1:0") can be given
FreePorts == Pool \ BoundPorts

\* lines 39-47 one call of randomPort at a time: the listener of lines 176-180
\* is given the free port p and closed again, and p is returned
Ports_RandomPort(h, p) ==
  /\ p \in FreePorts
  /\ \/ /\ pc[h] = "start"
        /\ cfg' = [cfg EXCEPT ![h] = [ZeroConfig EXCEPT !.Host = DefaultHost, !.SSHPort = p,
                                         !.DataDir = PathJoin(TempDir(h), ".data"),
                                         !.clientData = PathJoin(TempDir(h), ".client-data")]]
        /\ pc' = [pc EXCEPT ![h] = "portHTTP"]
     \/ /\ pc[h] = "portHTTP"
        /\ cfg' = [cfg EXCEPT ![h].HTTPPort = p]
        /\ pc' = [pc EXCEPT ![h] = "portHealth"]
     \/ /\ pc[h] = "portHealth"
        /\ cfg' = [cfg EXCEPT ![h].HealthPort = p]
        /\ pc' = [pc EXCEPT ![h] = "newServer"]
  /\ UNCHANGED <<env, tpc, failed, cleanups, cleaning, signers, srv, agt, fetch, clients, ccfg, hist, par, kv, ui>>

\* lines 176-179: net.Listen fails in one of the three calls
Ports_ListenFatal(h) ==
  /\ pc[h] \in {"start", "portHTTP", "portHealth"}
  /\ Fatalf(h)
  /\ UNCHANGED <<env, cleanups, cleaning, signers, cfg, srv, agt, clients, ccfg, hist, par, kv, ui>>

\* the listeners of s.Start() can all bind: three different ports, none held
CanBind(h) ==
  /\ Cardinality(PortsOf(cfg[h])) = 3
  /\ PortsOf(cfg[h]) \cap BoundPorts = {}

\* the background s.Start() binding the three ports of cfg
Ports_Bind(h) ==
  /\ srv[h].state = "starting"
  /\ srv' = [srv EXCEPT ![h].state = IF CanBind(h) THEN "listening" ELSE "failed"]
  /\ UNCHANGED <<env, tpc, failed, cleanups, cleaning, pc, signers, cfg, agt, fetch, clients, ccfg, hist, par, kv, ui>>

NextPorts ==
  \/ \E h \in H, n \in SignerCounts : TestCallSetup(h, n)
  \/ \E h \in H, p \in Pool : Ports_RandomPort(h, p)
  \/ \E h \in H : Ports_ListenFatal(h)
  \/ \E h \in H : AfterConfigStep(h)
  \/ \E h \in H : Ports_Bind(h)
  \/ \E h \in H, ok \in BOOLEAN : Agent_Start(h, ok)
  \/ TestBodyEnd
  \/ CleanupStep
  \/ TestFinish

SpecPorts == Init /\ [][NextPorts]_vars

\* ------------------------------------------------------ the key/value store
\* Package kv as its tests (part_000 lines 81-195) call it: Set, Get and Delete
\* on byte-slice keys and values, written here as strings. The store itself is
\* outside src/.
KVKeys == {""} \cup {"k" \o FormatInt(i) : i \in 1..NumKeys}
KVVals == {""} \cup {"v" \o FormatInt(i) : i \in 1..NumVals}

\* the empty key is rejected by every call
KVValidKey(k) == k # ""

Put(f, k, v) == [x \in (DOMAIN f) \cup {k} |-> IF x = k THEN v ELSE f[x]]
Without(f, k) == [x \in (DOMAIN f) \ {k} |-> f[x]]

\* what the store holds after Set(k, v)
KVSet(db, k, v) == IF KVValidKey(k) THEN Put(db, k, v) ELSE db

\* what the store holds after Delete(k)
KVDeleteKeeps(db, k) == db
KVDelete(db, k) == IF KVValidKey(k) THEN Without(db, k) ELSE db

\* Get(k): the value and whether an error is returned
KVGet(db, k) ==
  IF KVValidKey(k) /\ k \in DOMAIN db
  THEN [val |-> db[k], err |-> FALSE]
  ELSE [val |-> "", err |-> TRUE]

\* kv.Set(k, v)
KV_Set(k, v) ==
  /\ kv.n < MaxOps
  /\ kv' = [db |-> KVSet(kv.db, k, v),
            last |-> Put(kv.last, k, [op |-> "set", v |-> v]),
            res |-> [op |-> "set", key |-> k, val |-> "", err |-> ~KVValidKey(k)],
            n |-> kv.n + 1]
  /\ UNCHANGED <<env, tpc, failed, cleanups, cleaning, pc, signers, cfg, srv, agt, fetch, clients, ccfg, hist, par, ui>>

\* kv.Delete(k)
KV_Delete(k) ==
  /\ kv.n < MaxOps
  /\ kv' = [db |-> KVDelete(kv.db, k),
            last |-> Put(kv.last, k, [op |-> "delete", v |-> ""]),
            res |-> [op |-> "delete", key |-> k, val |-> "", err |-> ~KVValidKey(k)],
            n |-> kv.n + 1]
  /\ UNCHANGED <<env, tpc, failed, cleanups, cleaning, pc, signers, cfg, srv, agt, fetch, clients, ccfg, hist, par, ui>>

\* kv.Get(k)
KV_Get(k) ==
  /\ kv.n < MaxOps
  /\ kv' = [kv EXCEPT !.res = [op |-> "get", key |-> k, val |-> KVGet(kv.db, k).val,
                               err |-> KVGet(kv.db, k).err],
                      !.n = @ + 1]
  /\ UNCHANGED <<env, tpc, failed, cleanups, cleaning, pc, signers, cfg, srv, agt, fetch, clients, ccfg, hist, par, ui>>

NextKV ==
  \/ \E k \in KVKeys, v \in KVVals : KV_Set(k, v)
  \/ \E k \in KVKeys : KV_Delete(k)
  \/ \E k \in KVKeys : KV_Get(k)

SpecKV == Init /\ [][NextKV]_vars

\* ------------------------------------------------------------ the keygen UI
\* Package keygen (part_000 lines 265-442) run by the tea runtime: a command
\* returned by Init or Update runs on its own goroutine and its result is a
\* message; messages are handed to Update one at a time; after each Update the
\* runtime asks Subscriptions what to keep running; the command tea.Quit ends
\* the program.
QuitKeys == {"ctrl+c", "esc", "q"}
UIKeys == QuitKeys \cup {"a"}

KeyMsg(k) == [type |-> "key", v |-> k]
FailedMsg(e) == [type |-> "failed", v |-> e]
SuccessMsg == [type |-> "success", v |-> ""]
TickMsg == [type |-> "tick", v |-> ""]
DoneMsg == [type |-> "done", v |-> ""]

\* spinner.Update on a tick: the next frame
SpinnerUpdate(f) == (f + 1) % SpinnerFrames

\* lines 353-358: case DoneMsg
OnDoneNeverQuits(m) == [m |-> [m EXCEPT !.status = "done"], cmd |-> "nil"]
OnDone(m) ==
  IF m.standalone THEN [m |-> m, cmd |-> "Quit"]
  ELSE [m |-> [m EXCEPT !.status = "done"], cmd |-> "nil"]

\* lines 329-362: Update(msg, model), the model and the command it returns
Update(msg, m) ==
  CASE msg.type = "key" ->
         IF msg.v \in QuitKeys THEN [m |-> [m EXCEPT !.status = "quitting"], cmd |-> "Quit"]
         ELSE [m |-> m, cmd |-> "nil"]
    [] msg.type = "failed" -> [m |-> [m EXCEPT !.err = msg.v, !.status = "error"], cmd |-> "Quit"]
    [] msg.type = "success" -> [m |-> [m EXCEPT !.status = "success"], cmd |-> "pause"]
    [] msg.type = "tick" -> [m |-> [m EXCEPT !.spinner = SpinnerUpdate(@)], cmd |-> "nil"]
    [] msg.type = "done" -> OnDone(m)

\* lines 398-412: Subscriptions(model); spinOK: Spin returned no error
Subscriptions(m, spinOK) ==
  IF spinOK /\ m.status = "running" THEN {"keygen-spinner"} ELSE {}

\* the program starts: Init() of lines 309-313 when the UI runs on its own, or
\* NewModel() in a program that embeds it and runs GenerateKeys itself
UI_Init(standalone, spinOK) ==
  /\ ~ui.on
  /\ ui' = [on |-> TRUE, m |-> [NewModel EXCEPT !.standalone = standalone],
            cmd |-> "GenerateKeys", inbox |-> <<>>,
            subs |-> Subscriptions(NewModel, spinOK), quit |-> FALSE]
  /\ UNCHANGED <<env, tpc, failed, cleanups, cleaning, pc, signers, cfg, srv, agt, fetch, clients, ccfg, hist, par, kv>>

\* lines 430-436: GenerateKeys returns; ok: charm.NewSSHKeyPair gave no error
UI_GenerateKeys(ok) ==
  /\ ui.on /\ ~ui.quit
  /\ ui.cmd = "GenerateKeys"
  /\ ui' = [ui EXCEPT !.cmd = "none",
                      !.inbox = Append(@, IF ok THEN SuccessMsg ELSE FailedMsg("keygen error"))]
  /\ UNCHANGED <<env, tpc, failed, cleanups, cleaning, pc, signers, cfg, srv, agt, fetch, clients, ccfg, hist, par, kv>>

\* lines 439-442: pause returns after its sleep
UI_Pause ==
  /\ ui.on /\ ~ui.quit
  /\ ui.cmd = "pause"
  /\ ui' = [ui EXCEPT !.cmd = "none", !.inbox = Append(@, DoneMsg)]
  /\ UNCHANGED <<env, tpc, failed, cleanups, cleaning, pc, signers, cfg, srv, agt, fetch, clients, ccfg, hist, par, kv>>

\* key presses and ticks waiting to be handled
Pending(inbox) == Len(SelectSeq(inbox, LAMBDA x : x.type \in {"key", "tick"}))

\* the spinner's subscription, while it is kept running, sends a tick
UI_Tick ==
  /\ ui.on /\ ~ui.quit
  /\ "keygen-spinner" \in ui.subs
  /\ Pending(ui.inbox) < MaxPending
  /\ ui' = [ui EXCEPT !.inbox = Append(@, TickMsg)]
  /\ UNCHANGED <<env, tpc, failed, cleanups, cleaning, pc, signers, cfg, srv, agt, fetch, clients, ccfg, hist, par, kv>>

\* the user presses a key
UI_Key(k) ==
  /\ ui.on /\ ~ui.quit
  /\ Pending(ui.inbox) < MaxPending
  /\ ui' = [ui EXCEPT !.inbox = Append(@, KeyMsg(k))]
  /\ UNCHANGED <<env, tpc, failed, cleanups, cleaning, pc, signers, cfg, srv, agt, fetch, clients, ccfg, hist, par, kv>>

\* the runtime hands the oldest message to Update, runs the command returned
\* and asks Subscriptions
UI_Update(spinOK) ==
  /\ ui.on /\ ~ui.quit
  /\ ui.inbox # <<>>
  /\ LET r == Update(Head(ui.inbox), ui.m) IN
       ui' = [ui EXCEPT !.m = r.m,
                        !.inbox = Tail(@),
                        !.cmd = IF r.cmd = "pause" THEN "pause" ELSE @,
                        !.quit = (r.cmd = "Quit"),
                        !.subs = Subscriptions(r.m, spinOK)]
  /\ UNCHANGED <<env, tpc, failed, cleanups, cleaning, pc, signers, cfg, srv, agt, fetch, clients, ccfg, hist, par, kv>>

\* the goroutines of the commands, and the runtime's own loop
UI_Commands == (\E ok \in BOOLEAN : UI_GenerateKeys(ok)) \/ UI_Pause
UI_Loop == \E spinOK \in BOOLEAN : UI_Update(spinOK)

NextUI ==
  \/ \E standalone \in BOOLEAN, spinOK \in BOOLEAN : UI_Init(standalone, spinOK)
  \/ \E ok \in BOOLEAN : UI_GenerateKeys(ok)
  \/ UI_Pause
  \/ UI_Tick
  \/ \E k \in UIKeys : UI_Key(k)
  \/ \E spinOK \in BOOLEAN : UI_Update(spinOK)

SpecUI == Init /\ [][NextUI]_vars

\* command results are delivered: a command that has been started returns,
\* and the runtime keeps handing the messages it holds to Update
FairSpecUI ==
  /\ SpecUI
  /\ WF_vars(UI_Commands)
  /\ WF_vars(UI_Loop)

\* ------------------------------------------------------- two parallel tests
\* Two tests of one process run in parallel (t.Parallel()), each with its own
\* tb and each calling the harness once: test h makes invocation h. The
\* variables tpc, failed, cleanups and cleaning are those of the test whose
\* goroutine is running, par.cur; the other test's are kept in par.saved. The
\* environment is the one thing the two share: every other statement of an
\* invocation reads and writes its own locals only, so it makes no difference
\* to either test where between two accesses of the environment the other
\* test's statements fall.

\* the next statement of the running test reads or writes the environment
\* (lines 60-63, 110, 127-128, 130, 98-105), or the test has not called the
\* harness yet, has ended, or waits in the loop of line 86
AtEnvAccess ==
  \/ pc[par.cur] \in {"idle", "setenv", "noAgentConfig", "agentEnv", "fullConfig", "agentWait"}
  \/ CleaningStep("unsetCore")
  \/ CleaningStep("unsetAgentEnv")
  \/ tpc = "done"

\* the scheduler lets the goroutine of test g run
Par_Switch(g) ==
  /\ g \in Par \ {par.cur}
  /\ AtEnvAccess
  /\ par' = [cur |-> g,
             saved |-> [par.saved EXCEPT ![par.cur] = [tpc |-> tpc, failed |-> failed,
                                                       cleanups |-> cleanups,
                                                       cleaning |-> cleaning],
                                         ![g] = NewTB]]
  /\ tpc' = par.saved[g].tpc
  /\ failed' = par.saved[g].failed
  /\ cleanups' = par.saved[g].cleanups
  /\ cleaning' = par.saved[g].cleaning
  /\ UNCHANGED <<env, pc, signers, cfg, srv, agt, fetch, clients, ccfg, hist, kv, ui>>

\* the running test calls SetupTestServerWithAgent(tb, signers...) with n signers
Par_CallSetup(n) ==
  /\ tpc = "body"
  /\ pc[par.cur] = "idle"
  /\ pc' = [pc EXCEPT ![par.cur] = "start"]
  /\ signers' = [signers EXCEPT ![par.cur] = n]
  /\ tpc' = "setup"
  /\ UNCHANGED <<env, failed, cleanups, cleaning, cfg, srv, agt, fetch, clients, ccfg, hist, par, kv, ui>>

\* the running test's function returns after its call of the harness
Par_TestBodyEnd ==
  /\ tpc = "body"
  /\ pc[par.cur] = "returned"
  /\ tpc' = "cleanup"
  /\ UNCHANGED <<env, failed, cleanups, cleaning, pc, signers, cfg, srv, agt, fetch, clients, ccfg, hist, par, kv, ui>>

NextPar ==
  \/ \E g \in Par : Par_Switch(g)
  \/ \E n \in SignerCounts : Par_CallSetup(n)
  \/ SetupStep(par.cur)
  \/ \E h \in Par : Background(h)
  \/ Par_TestBodyEnd
  \/ CleanupStep
  \/ TestFinish

SpecPar == Init /\ [][NextPar]_vars

\* ================================================================== claims
TestDone == tpc = "done"
AllGetsFailed(log) == \A i \in 1..Len(Gets(log)) : Gets(log)[i].v = TransportFailure
LastGet(log) == Gets(log)[Len(Gets(log))].v
\* the log is get, sleep, get, ..., get with every sleep one second long
OneSleepBetweenGets(log) ==
  /\ Len(log) = 2 * Len(Gets(log)) - 1
  /\ \A i \in 1..Len(log) :
       IF i % 2 = 1 THEN log[i].e = "get" ELSE log[i] = SleepEvent(FetchSleepMs)
AgentOrder == <<"serverClose", "unsetCore", "unsetAgentEnv", "agentClose">>
IsPrefix(a, b) == Len(a) <= Len(b) /\ a = SubSeq(b, 1, Len(a))

\* C1 (as claimed): once the test's cleanups have run, the server of every
\* invocation that started one (line 65) has had Close invoked exactly once,
\* whichever way the invocation ended.
C1_ServerClosedOnceOnEveryPath ==
  TestDone => \A h \in H : srv[h].started => srv[h].closes = 1

\* C2 (as claimed): with an agent started, the cleanups of an invocation run
\* server Close, unset of the core variables, agent Close, unset of the agent variables.
C2_ClaimedOrder ==
  \A h \in H : (TestDone /\ ~agt[h].nil) =>
     hist[h].clog = <<"serverClose", "unsetCore", "agentClose", "unsetAgentEnv">>

\* C2 (amended): with an agent started, the cleanups of an invocation run
\* server Close, unset of the core variables, unset of the agent variables and
\* only then agent Close; at every moment what has run is a prefix of that
\* order, and all four have run when the test is done.
C2_CleanupOrder ==
  \A h \in H : ~agt[h].nil =>
     /\ IsPrefix(hist[h].clog, AgentOrder)
     /\ (TestDone => hist[h].clog = AgentOrder)

C2_Witness == TestDone /\ \E h \in H : ~agt[h].nil /\ hist[h].clog = AgentOrder

\* C3 (as claimed): once the test's cleanups have run, none of the six
\* variables the harness writes is in the environment, wherever setup stopped.
C3_EnvCleanAfterTest == TestDone => (DOMAIN env) \cap HarnessVars = {}

\* C4: a FetchURL call with retries >= 1 whose every attempt failed with a
\* transport error returns after exactly retries+1 attempts, with one 1-second
\* sleep between consecutive attempts, a nil response and the last attempt's error.
C4_AllAttemptsFail ==
  \A h \in H :
    (pc[h] = "fetchRet" /\ fetch[h].retries0 >= 1 /\ AllGetsFailed(fetch[h].log)) =>
       /\ Len(Gets(fetch[h].log)) = fetch[h].retries0 + 1
       /\ OneSleepBetweenGets(fetch[h].log)
       /\ fetch[h].resp = 0
       /\ fetch[h].err = TransportErr(fetch[h].retries0 + 1)

C4_Witness ==
  \E h \in H : /\ pc[h] = "fetchRet" /\ fetch[h].retries0 >= 2
               /\ AllGetsFailed(fetch[h].log)

\* C5 (as claimed): FetchURL gives up on a non-200 status only once the retry
\* budget is used up; while budget remains it sleeps and probes again.
C5_BadStatusRetried ==
  \A h \in H : (pc[h] = "fetchRet" /\ fetch[h].err.kind = "status") => fetch[h].retries = 0

\* C5 (amended): a non-200 status is never retried: FetchURL returns at once
\* with that response and a bad-status error, whatever budget remains, so every
\* attempt before the last one was a transport error; only transport errors are
\* retried (one sleep, budget less one), and FetchURL gives up on them only
\* once the budget is used up.
C5_BadStatusNotRetried ==
  \A h \in H : pc[h] = "fetchRet" =>
     /\ \A i \in 1..(Len(Gets(fetch[h].log)) - 1) : Gets(fetch[h].log)[i].v = TransportFailure
     /\ Len(Sleeps(fetch[h].log)) = Len(Gets(fetch[h].log)) - 1
     /\ fetch[h].retries = fetch[h].retries0 - Len(Sleeps(fetch[h].log))
     /\ (LastGet(fetch[h].log) \notin {TransportFailure, StatusOK} =>
           /\ fetch[h].resp = LastGet(fetch[h].log)
           /\ fetch[h].err = StatusErr(LastGet(fetch[h].log)))
     /\ (LastGet(fetch[h].log) = TransportFailure => fetch[h].retries = 0)

C5_Witness ==
  \E h \in H : /\ pc[h] = "fetchRet" /\ fetch[h].err.kind = "status"
               /\ fetch[h].retries > 0 /\ Len(Gets(fetch[h].log)) > 1

\* C6: when attempt N answers 200 after N-1 transport errors, N <= retries+1,
\* FetchURL has made exactly N attempts, makes none after it, and returns that
\* response with a nil error.
C6_SuccessOnNthAttempt ==
  \A h \in H : \A i \in 1..Len(fetch[h].log) :
     fetch[h].log[i] = GetEvent(StatusOK) =>
        /\ i = Len(fetch[h].log)
        /\ pc[h] = "fetchRet"
        /\ AllGetsFailed(SubSeq(fetch[h].log, 1, i - 1))
        /\ Len(Gets(fetch[h].log)) <= fetch[h].retries0 + 1
        /\ fetch[h].resp = StatusOK
        /\ fetch[h].err = NilErr

C6_Witness ==
  \E h \in H : /\ pc[h] = "fetchRet" /\ fetch[h].retries0 >= 2
               /\ LastGet(fetch[h].log) = StatusOK
               /\ Len(Gets(fetch[h].log)) = fetch[h].retries0 + 1

\* C7: a Full client exists only after agt.Ready() was seen to return true,
\* and its SSHAgentAddr is the socket the agent reports.
C7_FullAfterReady ==
  \A h \in H : ~clients[h].Full.nil =>
     /\ hist[h].readySeen
     /\ clients[h].Full.cfg.SSHAgentAddr = agt[h].socket

C7_Witness == \E h \in H : ~clients[h].Full.nil /\ signers[h] > 0

\* C8: an invocation without signers never creates an agent, never builds the
\* Full client and never writes an agent variable; it returns Full == nil.
C8_NoSignersNoAgent ==
  \A h \in H : (pc[h] # "idle" /\ signers[h] = 0) =>
     /\ agt[h].nil
     /\ clients[h].Full.nil
     /\ hist[h].written \cap AgentVars = {}
     /\ \A i \in 1..Len(cleanups) : ~(cleanups[i].kind = "agent" /\ cleanups[i].h = h)

C8_Witness == \E h \in H : pc[h] = "returned" /\ signers[h] = 0

\* C9: an invocation that returns gives NoAgent != nil, and with at least one
\* signer Full != nil whose configuration has UseSSHAgent set and a non-empty
\* agent socket address.
C9_ReturnedClients ==
  \A h \in H : pc[h] = "returned" =>
     /\ ~clients[h].NoAgent.nil
     /\ (signers[h] >= 1 =>
           /\ ~clients[h].Full.nil
           /\ clients[h].Full.cfg.UseSSHAgent
           /\ clients[h].Full.cfg.SSHAgentAddr # "")

C9_Witness == \E h \in H : pc[h] = "returned" /\ signers[h] >= 1

\* C10 (as claimed): when the agent's Start has failed, the invocation
\* eventually aborts the test fatally.
C10_AgentFailureIsFatal ==
  \A h \in H : (agt[h].state = "failed") ~> (pc[h] = "fatal")

\* the statements after the health probe (lines 75-147)
AfterProbe ==
  {"agentNew", "agentWait", "agentSleep", "regCleanup", "noAgentConfig", "noAgentClient",
   "agentEnv", "fullConfig", "fullClient", "return", "returned"}
\* the error of the last http.Get of a log
LastProbeErr(log) ==
  IF LastGet(log) = TransportFailure THEN TransportErr(Len(Gets(log))) ELSE StatusErr(LastGet(log))

\* C11: an invocation gets past the health probe only with a 200 response and
\* no error; when the probe has failed, after at most HealthRetries+1 attempts,
\* the invocation is aborted fatally with the error of the last attempt, and
\* then it has no agent, no agent cleanup, no client, has written no agent
\* variable and has not returned.
C11_ProbeFailureIsFatal ==
  \A h \in H :
    /\ (pc[h] \in AfterProbe => fetch[h].err = NilErr /\ fetch[h].resp = StatusOK)
    /\ (pc[h] \in {"fetchRet", "fatal"} /\ fetch[h].err # NilErr) =>
         /\ Len(Gets(fetch[h].log)) <= HealthRetries + 1
         /\ (AllGetsFailed(fetch[h].log) => Len(Gets(fetch[h].log)) = HealthRetries + 1)
         /\ fetch[h].err = LastProbeErr(fetch[h].log)
         /\ agt[h].nil
         /\ clients[h] = ZeroClients
         /\ hist[h].written \cap AgentVars = {}
         /\ \A i \in 1..Len(cleanups) : cleanups[i].h # h
         /\ (pc[h] = "fatal" => failed /\ tpc \in {"cleanup", "done"})

C11_Witness ==
  \E h \in H : /\ pc[h] = "fatal" /\ signers[h] > 0
               /\ fetch[h].err = TransportErr(HealthRetries + 1)

\* C12 (as claimed): once the test's cleanups have run, an invocation whose
\* cleanup was registered has unset exactly the variables it wrote before,
\* whether it returned or was aborted after line 93.
C12_UnsetExactlyWritten ==
  \A h \in H : (TestDone /\ hist[h].clog # <<>>) => hist[h].unset = hist[h].written

\* C13: a step in which s.Close() returns an error leaves the test failed and
\* the cleanup function at its next statement, the unset of the core variables
\* (followed, with an agent started, by the unset of the agent variables); the
\* agent's cleanup is still to run. Once the test's cleanups have run, every
\* invocation whose cleanup ran has unset the four core variables and, with an
\* agent started, has unset the two agent variables and closed the agent once;
\* none of the six is left in the environment.
C13_CloseErrorGoesOn ==
  /\ [][Cleanup_ServerClose(TRUE) =>
          /\ failed'
          /\ cleaning'.h = cleaning.h
          /\ cleaning'.steps = Tail(ServerCleanupBody(agt[cleaning.h]))
          /\ (~agt[cleaning.h].nil =>
                \E i \in 1..Len(cleanups') : cleanups'[i] = [kind |-> "agent", h |-> cleaning.h])]_vars
  /\ [](TestDone => \A h \in H : hist[h].clog # <<>> =>
          /\ CoreVars \subseteq hist[h].unset
          /\ (DOMAIN env) \cap CoreVars = {}
          /\ (~agt[h].nil =>
                /\ AgentVars \subseteq hist[h].unset
                /\ (DOMAIN env) \cap AgentVars = {}
                /\ agt[h].closes = 1
                /\ hist[h].clog = AgentOrder))

\* the test has failed although no invocation was aborted: a Close returned an error
C13_Witness ==
  /\ TestDone /\ failed
  /\ \A h \in H : pc[h] = "returned"
  /\ \E h \in H : ~agt[h].nil

\* the four settings a client configuration takes from its own invocation
OwnSettings(c, k) ==
  /\ c.Host = k.Host
  /\ c.SSHPort = k.SSHPort
  /\ c.HTTPPort = k.HTTPPort
  /\ c.DataDir = k.clientData

\* C14: with two invocations running in parallel tests, interleaved in any
\* way, every client an invocation has built or returned carries that
\* invocation's own Host, SSHPort, HTTPPort and client data directory,
\* whatever the environment held when its configuration was read.
C14_OwnSettingsForcedIn ==
  \A h \in Par :
    /\ (~clients[h].NoAgent.nil => OwnSettings(clients[h].NoAgent.cfg, cfg[h]))
    /\ (~clients[h].Full.nil => OwnSettings(clients[h].Full.cfg, cfg[h]))

\* an invocation without signers has returned a client whose configuration was
\* read while the other invocation's agent variables were in the environment
C14_Witness ==
  \E h \in Par, g \in Par :
    /\ g # h /\ pc[h] = "returned" /\ signers[h] = 0
    /\ clients[h].NoAgent.cfg.SSHAgentAddr = AgentSocket(g)

\* the statements between the writes of lines 60-63 and the return
CoreEnvSet ==
  {"goStart", "fetchGet", "fetchSleep", "fetchRet"} \cup (AfterProbe \ {"returned"})

\* C15 (as claimed): once the core variables are written, the invocation has
\* written five of them: the host, one for each of the SSH, HTTP and health
\* ports, and the client data directory.
C15_FiveCoreVariables ==
  \A h \in H : pc[h] \in CoreEnvSet => Cardinality(hist[h].written \ AgentVars) = 5

\* C15 (amended): the invocation writes four core variables, all in one go once
\* the server configuration is final: CHARM_HOST, CHARM_SSH_PORT,
\* CHARM_HTTP_PORT and CHARM_DATA_DIR, holding the host, the SSH port and the
\* HTTP port of its cfg in decimal and its client data directory; the health
\* port has no variable. All four are in the environment with these values
\* from line 63 until the invocation returns, so before each of its reads of
\* the client configuration.
C15_FourCoreVariables ==
  \A h \in H :
    /\ hist[h].written \ AgentVars \in {{}, CoreVars}
    /\ Cardinality(hist[h].written \ AgentVars) \in {0, 4}
    /\ (ccfg[h] # ZeroClientConfig => CoreVars \subseteq hist[h].written)
    /\ (pc[h] \in CoreEnvSet =>
          /\ CoreVars \subseteq hist[h].written
          /\ CoreVars \subseteq DOMAIN env
          /\ env["CHARM_HOST"] = cfg[h].Host
          /\ env["CHARM_SSH_PORT"] = FormatInt(cfg[h].SSHPort)
          /\ env["CHARM_HTTP_PORT"] = FormatInt(cfg[h].HTTPPort)
          /\ env["CHARM_DATA_DIR"] = cfg[h].clientData)

C15_Witness ==
  \E h \in H : pc[h] = "noAgentClient" /\ hist[h].written = CoreVars /\ cfg[h].HealthPort \in Ports

\* the invocations whose three ports have been allocated
Allocated == {h \in H : cfg[h].SSHPort # 0 /\ cfg[h].HTTPPort # 0 /\ cfg[h].HealthPort # 0}

\* C16 (as claimed): of the invocations one test makes one after another,
\* every one gets three different ports, different from those of the others,
\* and its server binds all of them.
C16_NoPortCollision ==
  \A h \in Allocated :
    /\ Cardinality(PortsOf(cfg[h])) = 3
    /\ \A g \in Allocated \ {h} : PortsOf(cfg[g]) \cap PortsOf(cfg[h]) = {}
    /\ srv[h].state # "failed"

\* the most recent Set or Delete on k was a Set
LastWasSet(k) == k \in DOMAIN kv.last /\ kv.last[k].op = "set"

\* C17: after any sequence of Set and Delete calls, Get(k) gives a value and
\* no error exactly when k is not empty and the most recent Set or Delete on k
\* was a Set, and the value is then the one last set; so Get on the empty key
\* or on a key never set gives an error; Delete on the empty key gives an
\* error. Stated of every key in every state, and of the result of each Get
\* and Delete call made.
C17_GetAfterSetDelete ==
  /\ \A k \in KVKeys :
       /\ ~KVGet(kv.db, k).err <=> (k # "" /\ LastWasSet(k))
       /\ (~KVGet(kv.db, k).err => KVGet(kv.db, k).val = kv.last[k].v)
  /\ (kv.res.op = "get" =>
        /\ ~kv.res.err <=> (kv.res.key # "" /\ LastWasSet(kv.res.key))
        /\ (~kv.res.err => kv.res.val = kv.last[kv.res.key].v)
        /\ (kv.res.key = "" \/ kv.res.key \notin DOMAIN kv.last => kv.res.err))
  /\ (kv.res.op = "delete" /\ kv.res.key = "" => kv.res.err)

\* a Get, the last of MaxOps calls, that returns a non-empty value and no error
C17_Witness ==
  /\ kv.res.op = "get" /\ ~kv.res.err /\ kv.res.val # ""
  /\ kv.n = MaxOps

\* the Full client of invocation h has been built, or building it has failed
\* (lines 130-145 are reached only after the writes of lines 127-128)
FullBuiltOrFailed(h) ==
  \/ ~clients[h].Full.nil
  \/ pc[h] = "fatal" /\ AgentVars \subseteq hist[h].written

\* C18 (as claimed): the agent of an invocation is closed at most once, once
\* when the test's cleanups have run, only during those cleanups, and never
\* before the Full client was built or building it failed.
C18_ClosedOnlyAfterFull ==
  \A h \in H : ~agt[h].nil =>
    /\ agt[h].closes <= 1
    /\ (TestDone => agt[h].closes = 1)
    /\ (agt[h].closes > 0 => tpc \in {"cleanup", "done"} /\ FullBuiltOrFailed(h))

\* C18 (amended): the agent of an invocation is closed at most once, once when
\* the test's cleanups have run, and only during those cleanups, that is,
\* after the invocation has returned with its Full client built or has been
\* aborted: at the building of the Full client, or before it began (lines 112
\* and 122, when the Full client is never built). An invocation that created
\* no agent closes none.
C18_AgentClosedOnce ==
  \A h \in H :
    /\ agt[h].closes <= 1
    /\ (agt[h].nil => agt[h].closes = 0)
    /\ (~agt[h].nil /\ TestDone => agt[h].closes = 1)
    /\ (agt[h].closes > 0 =>
          /\ tpc \in {"cleanup", "done"}
          /\ pc[h] \in {"returned", "fatal"}
          /\ (pc[h] = "returned" => ~clients[h].Full.nil))

\* an agent closed after an abort at line 112 or 122
C18_Witness ==
  \E h \in H : /\ TestDone /\ agt[h].closes = 1 /\ pc[h] = "fatal"
               /\ hist[h].written = CoreVars

\* C19 (as claimed): whenever an invocation is about to read the configuration
\* of its NoAgent client (line 110), neither agent variable is in the
\* environment, and every NoAgent client built has UseSSHAgent false and an
\* empty SSHAgentAddr in its configuration.
C19_NoAgentNeverAgentBacked ==
  \A h \in H :
    /\ (pc[h] = "noAgentConfig" => (DOMAIN env) \cap AgentVars = {})
    /\ (~clients[h].NoAgent.nil =>
          /\ ~clients[h].NoAgent.cfg.UseSSHAgent
          /\ clients[h].NoAgent.cfg.SSHAgentAddr = "")

\* C20: the keygen UI run on its own always ends by issuing Quit, and when it
\* has, the status is error (after a failedMsg), quitting (after a quit key)
\* or success (after successMsg and the DoneMsg of pause); run on its own, its
\* status is never done; the spinner's subscription is offered only while the
\* status is running.
C20_StandaloneEndsInQuit ==
  /\ [](ui.on /\ ui.m.standalone => <>ui.quit)
  /\ [](ui.on /\ ui.m.standalone => ui.m.status # "done")
  /\ [](ui.subs # {} => ui.m.status = "running")
  /\ [](ui.quit /\ ui.m.standalone =>
          /\ ui.m.status \in {"error", "quitting", "success"}
          /\ (ui.m.status = "error" <=> ui.m.err # "")
          /\ (ui.m.status = "success" => ui.cmd = "none"))

\* the UI run on its own has quit after the keys were generated and the pause ended
C20_Witness == ui.on /\ ui.m.standalone /\ ui.quit /\ ui.m.status = "success"

====
